---- MODULE Spec2Model ----
(***************************************************************************)
(* GIF-to-ASCII: the sequential converter (converter.py), the              *)
(* multithreaded converter (converter-multithreaded.py) and the terminal   *)
(* player (ascii_player.py).                                               *)
(*                                                                         *)
(* Text is a sequence of one-character strings.  A decoded frame is the    *)
(* grid of luminances that img.resize(...).convert("L") hands to the       *)
(* pixel loop of frame_to_ascii: a sequence of rows of values in 0..255.   *)
(* Python positions are 0-based, sequence positions here are 1-based; a    *)
(* FrameIndex keeps its 0-based value.                                     *)
(***************************************************************************)
EXTENDS Integers, Sequences, FiniteSets, TLC

\* ---------------------------------------------------------------- bounds
MaxFrames     == 5      \* frames in an input animation (converters)
MaxPlayFrames == 3      \* frames in a persisted sequence (player)

\* ------------------------------------------------------------ configuration
MAX_WORKERS == 4

PALETTE == <<" ", ".", ",", ":", ";", "+", "*", "?", "%", "$", "#", "@">>

LEVELS == Len(PALETTE) - 1

NL == "\n"

\* frames.txt does not exist: a value no text is equal to
ABSENT == <<"absent">>

\* ------------------------------------------------------------------ text
RECURSIVE Join(_, _)
\* sep.join(parts)
Join(parts, sep) ==
    IF parts = <<>> THEN <<>>
    ELSE IF Len(parts) = 1 THEN parts[1]
    ELSE parts[1] \o sep \o Join(Tail(parts), sep)

IsSpace(c) == c \in {" ", NL}

\* str.strip(): drops leading and trailing whitespace; the text left is the
\* part from the first to the last character that is not whitespace
Strip(s) ==
    LET keep == {i \in 1..Len(s) : ~IsSpace(s[i])}
    IN  IF keep = {} THEN <<>>
        ELSE SubSeq(s, CHOOSE i \in keep : \A j \in keep : i <= j,
                       CHOOSE i \in keep : \A j \in keep : i >= j)

\* position of the first occurrence of sep in s at or after from, 0 when
\* there is none
Find(s, sep, from) ==
    LET hits == {i \in from..(Len(s) - Len(sep) + 1) : SubSeq(s, i, i + Len(sep) - 1) = sep}
    IN  IF hits = {} THEN 0 ELSE CHOOSE i \in hits : \A j \in hits : i <= j

RECURSIVE SplitFrom(_, _, _)
\* the pieces of s from position from on: the scan goes left to right and
\* continues behind each separator found (the position is bound once per step)
SplitFrom(s, sep, from) ==
    CHOOSE pieces \in
        { IF i = 0 THEN <<SubSeq(s, from, Len(s))>>
          ELSE <<SubSeq(s, from, i - 1)>> \o SplitFrom(s, sep, i + Len(sep))
          : i \in {Find(s, sep, from)} } : TRUE

\* str.split(sep): left to right, non-overlapping
Split(s, sep) == SplitFrom(s, sep, 1)

\* ------------------------------------------------------------ rasterizer
Level256(pixel) == (pixel * LEVELS) \div 256

\* level = pixel * LEVELS // 255
Level(pixel) == (pixel * LEVELS) \div 255

\* one row of the pixel loop: PALETTE[int(level)] per pixel
AsciiRow(row) == [x \in 1..Len(row) |-> PALETTE[Level(row[x]) + 1]]

\* converter.py frame_to_ascii: "\n".join(ascii_lines)
frame_to_ascii(img) == Join([y \in 1..Len(img) |-> AsciiRow(img[y])], <<NL>>)

\* converter-multithreaded.py frame_to_ascii: (frame_idx, ascii_string)
frame_to_ascii_mt(frame_data) == <<frame_data[1], frame_to_ascii(frame_data[2])>>

\* f"\n\n".join(ascii_frames) + "\n"
FullOutput(fs) == Join(fs, <<NL, NL>>) \o <<NL>>

\* a dict is a sequence of <<key, value>> pairs in insertion order
DictKeys(d) == [i \in 1..Len(d) |-> d[i][1]]

DictGet(d, k) == LET i == CHOOSE j \in 1..Len(d) : d[j][1] = k IN d[i][2]

\* d[k] = v: a new key goes to the end, a known key keeps its place
DictSet(d, k, v) ==
    IF \E j \in 1..Len(d) : d[j][1] = k
    THEN [j \in 1..Len(d) |-> IF d[j][1] = k THEN <<k, v>> ELSE d[j]]
    ELSE Append(d, <<k, v>>)

RECURSIVE Ascending(_)
\* the integers of S, smallest first
Ascending(S) ==
    IF S = {} THEN <<>>
    ELSE LET m == CHOOSE x \in S : \A y \in S : x <= y
         IN  <<m>> \o Ascending(S \ {m})

\* the keys as the dict yields them, in insertion order
Unsorted(keys) == keys

\* sorted(keys) of a list of distinct integers
Sorted(keys) == Ascending({keys[i] : i \in 1..Len(keys)})

\* ------------------------------------------------------------------ inputs
\* luminances of the test animations; 0, 128, 255, 64 are the 2x2 example
Ramp == <<0, 128, 255, 64, 32, 192, 96>>

RampAt(k) == Ramp[(k % Len(Ramp)) + 1]

\* the luminance grid (two rows of two pixels) of picture k
Picture(k) == <<<<RampAt(k), RampAt(k + 1)>>, <<RampAt(k + 2), RampAt(k + 3)>>>>

SeqsUpTo(S, n) == UNION {[1..k -> S] : k \in 1..n}

\* the input animations: 1..MaxFrames consecutive pictures, pairwise different
Gifs == {[i \in 1..n |-> Picture(start + i - 1)] : n \in 1..MaxFrames, start \in 0..2}

VARIABLES
    pc,              \* position of the main thread
    gif,             \* the frames stored in the chosen GIF file
    im_pos,          \* im.tell() of the open image / frame_idx of the extractor
    first_frame,     \* converter.py: the frame taken off the first generator
    all_frames,      \* multithreaded: list of (frame_idx, frame)
    futures,         \* multithreaded: the submitted futures, in submission order
    yielded,         \* multithreaded: futures as_completed has already yielded
    ascii_results,   \* multithreaded: dict frame_idx -> ascii, in insertion order
    completed_count, \* multithreaded: progress counter
    ascii_frames,    \* the converted frames
    full_output,     \* the text that is copied and written
    clipboard,       \* clipboard content
    file,            \* content of frames.txt, or ABSENT
    raised,          \* FrameIndexes whose rasterization raised
    io_raised,       \* which of "clipboard", "write" raised
    pixels,          \* rasterizer check: one row of luminances
    frames,          \* player: the loaded frames
    stop_flag,       \* player: stop_flag["stop"]
    listener,        \* player: position of the wait_for_enter thread
    cur,             \* player: position of the for loop in frames
    shown,           \* player: position in frames of the frame last printed, 0 if none
    after_stop,      \* player: frames printed since stop_flag was set
    persisted        \* player: the sequence the converter wrote into frames.txt

vars == <<pc, gif, im_pos, first_frame, all_frames, futures, yielded, ascii_results,
          completed_count, ascii_frames, full_output, clipboard, file, raised,
          io_raised, pixels, frames, stop_flag, listener, cur, shown, after_stop,
          persisted>>

convVars == <<gif, im_pos, first_frame, all_frames, futures, yielded, ascii_results,
              completed_count, ascii_frames, full_output, clipboard, raised, io_raised>>

playVars == <<frames, stop_flag, listener, cur, shown, after_stop, persisted>>

\* a converter before it has run
ConvIdle ==
    /\ im_pos = 0 /\ first_frame = <<>> /\ all_frames = <<>> /\ futures = <<>>
    /\ yielded = {} /\ ascii_results = <<>> /\ completed_count = 0
    /\ ascii_frames = <<>> /\ full_output = <<>> /\ clipboard = <<>>
    /\ raised = {} /\ io_raised = {}

\* the player before it has run
PlayIdle ==
    /\ frames = <<>> /\ stop_flag = FALSE /\ listener = "unstarted"
    /\ cur = 0 /\ shown = 0 /\ after_stop = 0

\* ------------------------------------------------- rasterizer on its own
\* frame_to_ascii applied to one row of two pixels of any luminance
InitPix ==
    /\ pc = "pix"
    /\ pixels \in [1..2 -> 0..255]
    /\ gif = <<>> /\ file = ABSENT /\ persisted = <<>>
    /\ ConvIdle /\ PlayIdle

RasterizeRow ==
    /\ pc = "pix"
    /\ ascii_frames' = <<frame_to_ascii(<<pixels>>)>>
    /\ pc' = "pix_done"
    /\ UNCHANGED <<gif, im_pos, first_frame, all_frames, futures, yielded, ascii_results,
                   completed_count, full_output, clipboard, file, raised, io_raised,
                   pixels>>
    /\ UNCHANGED playVars

NextPix == RasterizeRow

SpecPix == InitPix /\ [][NextPix]_vars

\* ---------------------------------------------------------- converter.py
InitSeq ==
    /\ pc = "first"
    /\ gif \in Gifs
    /\ file = ABSENT /\ persisted = <<>> /\ pixels = <<>>
    /\ ConvIdle /\ PlayIdle

\* line 97: first_frame = next(gif_frames(GIF_PATH))
SeqFirstFrame ==
    /\ pc = "first"
    /\ first_frame' = gif[1]
    /\ pc' = "conv_first"
    /\ UNCHANGED <<gif, im_pos, all_frames, futures, yielded, ascii_results,
                   completed_count, ascii_frames, full_output, clipboard, file, raised,
                   io_raised, pixels>>
    /\ UNCHANGED playVars

\* lines 100-103: the first frame is converted and appended; an exception of
\* frame_to_ascii is not handled and ends the script
SeqConvertFirst ==
    /\ pc = "conv_first"
    /\ \E ok \in BOOLEAN :
         IF ok
         THEN /\ ascii_frames' = Append(ascii_frames, frame_to_ascii(first_frame))
              /\ pc' = "loop"
              /\ UNCHANGED raised
         ELSE /\ raised' = raised \cup {0}
              /\ pc' = "crashed"
              /\ UNCHANGED ascii_frames
    /\ im_pos' = 0      \* line 106 opens the file again: a new generator
    /\ UNCHANGED <<gif, first_frame, all_frames, futures, yielded, ascii_results,
                   completed_count, full_output, clipboard, file, io_raised, pixels>>
    /\ UNCHANGED playVars

\* lines 106-108, one iteration: the generator yields the frame at im_pos and
\* the loop body converts and appends it
SeqConvertNext ==
    /\ pc = "loop"
    /\ im_pos < Len(gif)
    /\ \E ok \in BOOLEAN :
         IF ok
         THEN /\ ascii_frames' = Append(ascii_frames, frame_to_ascii(gif[im_pos + 1]))
              /\ im_pos' = im_pos + 1
              /\ UNCHANGED <<pc, raised>>
         ELSE /\ raised' = raised \cup {im_pos}
              /\ pc' = "crashed"
              /\ UNCHANGED <<ascii_frames, im_pos>>
    /\ UNCHANGED <<gif, first_frame, all_frames, futures, yielded, ascii_results,
                   completed_count, full_output, clipboard, file, io_raised, pixels>>
    /\ UNCHANGED playVars

\* lines 55-57 and 110-120: seek past the last frame raises EOFError, the loop
\* ends, the frames are joined
SeqJoin ==
    /\ pc = "loop"
    /\ im_pos = Len(gif)
    /\ IF ascii_frames = <<>>
       THEN pc' = "exit" /\ UNCHANGED full_output
       ELSE pc' = "copy" /\ full_output' = FullOutput(ascii_frames)
    /\ UNCHANGED <<gif, im_pos, first_frame, all_frames, futures, yielded, ascii_results,
                   completed_count, ascii_frames, clipboard, file, raised, io_raised,
                   pixels>>
    /\ UNCHANGED playVars

\* line 121: pyperclip.copy(full_output), outside any try
SeqCopy ==
    /\ pc = "copy"
    /\ \E ok \in BOOLEAN :
         IF ok
         THEN /\ clipboard' = full_output
              /\ pc' = "write"
              /\ UNCHANGED io_raised
         ELSE /\ io_raised' = io_raised \cup {"clipboard"}
              /\ pc' = "crashed"
              /\ UNCHANGED clipboard
    /\ UNCHANGED <<gif, im_pos, first_frame, all_frames, futures, yielded, ascii_results,
                   completed_count, ascii_frames, full_output, file, raised, pixels>>
    /\ UNCHANGED playVars

\* lines 127-134: the write is inside try/except
SeqWrite ==
    /\ pc = "write"
    /\ \E ok \in BOOLEAN :
         IF ok
         THEN file' = full_output /\ UNCHANGED io_raised
         ELSE io_raised' = io_raised \cup {"write"} /\ UNCHANGED file
    /\ pc' = "done"
    /\ UNCHANGED <<gif, im_pos, first_frame, all_frames, futures, yielded, ascii_results,
                   completed_count, ascii_frames, full_output, clipboard, raised, pixels>>
    /\ UNCHANGED playVars

NextSeq ==
    \/ SeqFirstFrame
    \/ SeqConvertFirst
    \/ SeqConvertNext
    \/ SeqJoin
    \/ SeqCopy
    \/ SeqWrite

SpecSeq == InitSeq /\ [][NextSeq]_vars

\* ------------------------------------------ converter-multithreaded.py
PENDING == "PENDING"
RUNNING == "RUNNING"
FINISHED == "FINISHED"

InitMt ==
    /\ pc = "extract"
    /\ gif \in Gifs
    /\ file = ABSENT /\ persisted = <<>> /\ pixels = <<>>
    /\ ConvIdle /\ PlayIdle

Running == {f \in 1..Len(futures) : futures[f].state = RUNNING}

\* a thread per task: no limit on the running tasks
UnboundedPool == TRUE

\* ThreadPoolExecutor(max_workers=MAX_WORKERS): a task starts only while
\* fewer than MAX_WORKERS are running
PoolHasIdleWorker == Cardinality(Running) < MAX_WORKERS

\* the RawFrames alive: all_frames keeps every extracted frame for the whole run
RawFramesHeld == Len(all_frames)

\* lines 68-84, one iteration of extract_all_frames: the frame at frame_idx is
\* copied and appended, then seek; EOFError after the last frame ends the loop
ExtractFrame ==
    /\ pc = "extract"
    /\ im_pos < Len(gif)
    /\ all_frames' = Append(all_frames, <<im_pos, gif[im_pos + 1]>>)
    /\ im_pos' = im_pos + 1
    /\ pc' = IF im_pos + 1 = Len(gif) THEN "submit" ELSE "extract"
    /\ UNCHANGED <<gif, first_frame, futures, yielded, ascii_results, completed_count,
                   ascii_frames, full_output, clipboard, file, raised, io_raised, pixels>>
    /\ UNCHANGED playVars

\* lines 85-88 and 146-147: another exception while decoding; with no frame
\* extracted it is raised again and main exits, otherwise the frames
\* extracted so far are kept
ExtractError ==
    /\ pc = "extract"
    /\ im_pos < Len(gif)
    /\ \E at_seek \in BOOLEAN :
         /\ all_frames' = IF at_seek
                          THEN Append(all_frames, <<im_pos, gif[im_pos + 1]>>)
                          ELSE all_frames
         /\ im_pos' = IF at_seek THEN im_pos + 1 ELSE im_pos
    /\ pc' = IF all_frames' = <<>> THEN "exit" ELSE "submit"
    /\ UNCHANGED <<gif, first_frame, futures, yielded, ascii_results, completed_count,
                   ascii_frames, full_output, clipboard, file, raised, io_raised, pixels>>
    /\ UNCHANGED playVars

\* lines 176-179: executor.submit for the next frame of all_frames
Submit ==
    /\ pc = "submit"
    /\ futures' = Append(futures, [state |-> PENDING, result |-> <<>>, exc |-> FALSE])
    /\ pc' = IF Len(futures) + 1 = Len(all_frames) THEN "collect" ELSE "submit"
    /\ UNCHANGED <<gif, im_pos, first_frame, all_frames, yielded, ascii_results,
                   completed_count, ascii_frames, full_output, clipboard, file, raised,
                   io_raised, pixels>>
    /\ UNCHANGED playVars

\* a pool thread takes the oldest queued task
WorkerStart ==
    \E f \in 1..Len(futures) :
        /\ futures[f].state = PENDING
        /\ \A g \in 1..(f - 1) : futures[g].state # PENDING
        /\ PoolHasIdleWorker
        /\ futures' = [futures EXCEPT ![f].state = RUNNING]
        /\ UNCHANGED <<pc, gif, im_pos, first_frame, all_frames, yielded, ascii_results,
                       completed_count, ascii_frames, full_output, clipboard, file,
                       raised, io_raised, pixels>>
        /\ UNCHANGED playVars

\* lines 108-127 in a pool thread: frame_to_ascii returns or raises
WorkerFinish ==
    \E f \in 1..Len(futures), ok \in BOOLEAN :
        /\ futures[f].state = RUNNING
        /\ IF ok
           THEN /\ futures' = [futures EXCEPT ![f].state = FINISHED,
                                              ![f].result = frame_to_ascii_mt(all_frames[f])]
                /\ UNCHANGED raised
           ELSE /\ futures' = [futures EXCEPT ![f].state = FINISHED, ![f].exc = TRUE]
                /\ raised' = raised \cup {all_frames[f][1]}
        /\ UNCHANGED <<pc, gif, im_pos, first_frame, all_frames, yielded, ascii_results,
                       completed_count, ascii_frames, full_output, clipboard, file,
                       io_raised, pixels>>
        /\ UNCHANGED playVars

\* lines 182-189, one iteration: as_completed yields a finished future
Collect ==
    /\ pc = "collect"
    /\ \E f \in 1..Len(futures) \ yielded :
         /\ futures[f].state = FINISHED
         /\ yielded' = yielded \cup {f}
         /\ ascii_results' =
              IF futures[f].exc THEN ascii_results
              ELSE DictSet(ascii_results, futures[f].result[1], futures[f].result[2])
    /\ completed_count' = completed_count + 1
    /\ UNCHANGED <<pc, gif, im_pos, first_frame, all_frames, futures, ascii_frames,
                   full_output, clipboard, file, raised, io_raised, pixels>>
    /\ UNCHANGED playVars

\* lines 191-205: every future was yielded; the frames are read in the order
\* of the sorted keys; the preview reads ascii_frames[0] (IndexError when
\* nothing was converted); the frames are joined
Reassemble ==
    /\ pc = "collect"
    /\ yielded = 1..Len(futures)
    /\ LET keys == Sorted(DictKeys(ascii_results))
       IN  ascii_frames' = [k \in 1..Len(keys) |-> DictGet(ascii_results, keys[k])]
    /\ IF ascii_frames' = <<>>
       THEN pc' = "crashed" /\ UNCHANGED full_output
       ELSE pc' = "copy" /\ full_output' = FullOutput(ascii_frames')
    /\ UNCHANGED <<gif, im_pos, first_frame, all_frames, futures, yielded, ascii_results,
                   completed_count, clipboard, file, raised, io_raised, pixels>>
    /\ UNCHANGED playVars

\* lines 207-213: pyperclip.copy inside try/except
MtCopy ==
    /\ pc = "copy"
    /\ \E ok \in BOOLEAN :
         IF ok
         THEN clipboard' = full_output /\ UNCHANGED io_raised
         ELSE io_raised' = io_raised \cup {"clipboard"} /\ UNCHANGED clipboard
    /\ pc' = "write"
    /\ UNCHANGED <<gif, im_pos, first_frame, all_frames, futures, yielded, ascii_results,
                   completed_count, ascii_frames, full_output, file, raised, pixels>>
    /\ UNCHANGED playVars

\* lines 216-226: the write is inside try/except
MtWrite ==
    /\ pc = "write"
    /\ \E ok \in BOOLEAN :
         IF ok
         THEN file' = full_output /\ UNCHANGED io_raised
         ELSE io_raised' = io_raised \cup {"write"} /\ UNCHANGED file
    /\ pc' = "done"
    /\ UNCHANGED <<gif, im_pos, first_frame, all_frames, futures, yielded, ascii_results,
                   completed_count, ascii_frames, full_output, clipboard, raised, pixels>>
    /\ UNCHANGED playVars

NextMt ==
    \/ ExtractFrame
    \/ ExtractError
    \/ Submit
    \/ WorkerStart
    \/ WorkerFinish
    \/ Collect
    \/ Reassemble
    \/ MtCopy
    \/ MtWrite

SpecMt == InitMt /\ [][NextMt]_vars

\* -------------------------------------------------------- ascii_player.py
\* frames of one character grid over two palette characters, one of them the space
PlayChars == {" ", "@"}

GridFrames(w, h) == {Join(rows, <<NL>>) : rows \in [1..h -> [1..w -> PlayChars]]}

\* the sequences a converter run can have persisted
PlaySequences ==
    UNION {SeqsUpTo(GridFrames(g[1], g[2]), MaxPlayFrames) : g \in {<<1, 1>>, <<2, 1>>, <<1, 2>>}}

InitPlay ==
    /\ pc = "exists"
    /\ \/ persisted \in PlaySequences /\ file = FullOutput(persisted)
       \/ persisted = <<>> /\ file \in {ABSENT, <<>>}
    /\ gif = <<>> /\ pixels = <<>>
    /\ ConvIdle /\ PlayIdle

\* for frame in frames[1:] with the test of line 40 removed
NoBreakOnStop == FALSE

\* line 40: if stop_flag["stop"]: break
BreakOnStop == stop_flag

\* lines 17-18
CheckExists ==
    /\ pc = "exists"
    /\ pc' = IF file = ABSENT THEN "returned" ELSE "load"
    /\ UNCHANGED <<file>> /\ UNCHANGED convVars /\ UNCHANGED <<pixels>>
    /\ UNCHANGED playVars

\* lines 20-23: frames = f.read().strip().split("\n\n")
Load ==
    /\ pc = "load"
    /\ frames' = Split(Strip(file), <<NL, NL>>)
    /\ pc' = "thread"
    /\ UNCHANGED <<file, pixels, stop_flag, listener, cur, shown, after_stop, persisted>>
    /\ UNCHANGED convVars

\* line 29: the listener thread starts
StartListener ==
    /\ pc = "thread"
    /\ listener' = "waiting"
    /\ pc' = "render0"
    /\ UNCHANGED <<file, pixels, frames, stop_flag, cur, shown, after_stop, persisted>>
    /\ UNCHANGED convVars

\* lines 25-27: input() returns, the flag is set
Enter ==
    /\ listener = "waiting"
    /\ stop_flag' = TRUE
    /\ listener' = "done"
    /\ UNCHANGED <<pc, file, pixels, frames, cur, shown, after_stop, persisted>>
    /\ UNCHANGED convVars

\* lines 31-32: frames[0] and the prompt are printed
RenderFirst ==
    /\ pc = "render0"
    /\ shown' = 1
    /\ after_stop' = IF stop_flag THEN after_stop + 1 ELSE after_stop
    /\ pc' = "sleep0"
    /\ UNCHANGED <<file, pixels, frames, stop_flag, listener, cur, persisted>>
    /\ UNCHANGED convVars

\* line 35
SleepFirst ==
    /\ pc = "sleep0"
    /\ pc' = "while"
    /\ UNCHANGED <<file, pixels>> /\ UNCHANGED playVars /\ UNCHANGED convVars

\* line 38: while not stop_flag["stop"]; a new pass starts at frames[1]
WhileTest ==
    /\ pc = "while"
    /\ IF stop_flag
       THEN pc' = "clear" /\ UNCHANGED cur
       ELSE pc' = "for" /\ cur' = 2
    /\ UNCHANGED <<file, pixels, frames, stop_flag, listener, shown, after_stop, persisted>>
    /\ UNCHANGED convVars

\* lines 39-41: the for loop takes the next frame of frames[1:], or ends
ForNext ==
    /\ pc = "for"
    /\ pc' = IF cur > Len(frames) \/ BreakOnStop THEN "while" ELSE "render"
    /\ UNCHANGED <<file, pixels>> /\ UNCHANGED playVars /\ UNCHANGED convVars

\* lines 42-43: the frame and the prompt are printed
Render ==
    /\ pc = "render"
    /\ shown' = cur
    /\ after_stop' = IF stop_flag THEN after_stop + 1 ELSE after_stop
    /\ pc' = "sleep"
    /\ UNCHANGED <<file, pixels, frames, stop_flag, listener, cur, persisted>>
    /\ UNCHANGED convVars

\* line 44, then the loop advances
Sleep ==
    /\ pc = "sleep"
    /\ cur' = cur + 1
    /\ pc' = "for"
    /\ UNCHANGED <<file, pixels, frames, stop_flag, listener, shown, after_stop, persisted>>
    /\ UNCHANGED convVars

\* lines 45-46: KeyboardInterrupt inside the try block leaves the loop
Interrupt ==
    /\ pc \in {"while", "for", "render", "sleep"}
    /\ pc' = "clear"
    /\ UNCHANGED <<file, pixels>> /\ UNCHANGED playVars /\ UNCHANGED convVars

\* line 48: clear_screen()
ClearScreen ==
    /\ pc = "clear"
    /\ pc' = "Stopped"
    /\ UNCHANGED <<file, pixels>> /\ UNCHANGED playVars /\ UNCHANGED convVars

\* the steps of the main thread of the player
PlayMain ==
    \/ CheckExists
    \/ Load
    \/ StartListener
    \/ RenderFirst
    \/ SleepFirst
    \/ WhileTest
    \/ ForNext
    \/ Render
    \/ Sleep
    \/ ClearScreen

NextPlay ==
    \/ PlayMain
    \/ Enter
    \/ Interrupt

SpecPlay == InitPlay /\ [][NextPlay]_vars

\* the main thread keeps running: it is never suspended for ever
FairPlay == SpecPlay /\ WF_vars(PlayMain)

\* ================================================================ claims
Terminated == pc \in {"done", "crashed", "exit"}

\* the FrameIndexes of the input whose rasterization did not raise
NotRaised == (0..(Len(gif) - 1)) \ raised

\* the k-th smallest member of S is i
IsKth(S, i, k) == i \in S /\ Cardinality({j \in S : j < i}) = k - 1

\* the conversions of the frames of S, by ascending FrameIndex
InOrder(S) ==
    [k \in 1..Cardinality(S) |-> frame_to_ascii(gif[(CHOOSE i \in S : IsKth(S, i, k)) + 1])]

\* C1: a converter run on an animation of N frames yields at most N ascii
\* frames, exactly N when no frame failed: no source frame is converted twice.
C1_AtMostOnePerFrame ==
    pc \in {"copy", "write", "done"} =>
        /\ Len(ascii_frames) <= Len(gif)
        /\ (raised = {} => Len(ascii_frames) = Len(gif))

\* C2: after reassembly every submitted task has finished and ascii_frames
\* holds the conversions of the frames that succeeded, by ascending
\* FrameIndex, whatever the order in which the futures were yielded.
C2_OrderedByFrameIndex ==
    pc \in {"copy", "write", "done", "crashed"} =>
        LET done == {f \in 1..Len(futures) : futures[f].state = FINISHED}
            S    == {all_frames[f][1] : f \in {g \in done : ~futures[g].exc}}
        IN  /\ Len(futures) = Len(all_frames)
            /\ done = 1..Len(futures)
            /\ Len(ascii_frames) = Cardinality(S)
            /\ \A i \in S :
                 ascii_frames[Cardinality({j \in S : j <= i})] = frame_to_ascii(gif[i + 1])

\* C2 witness: the futures were yielded out of order (the dict's insertion
\* order is not ascending) and three frames were reassembled
C2_Witness ==
    /\ pc = "done"
    /\ Len(ascii_frames) >= 3
    /\ \E a, b \in 1..Len(ascii_results) : a < b /\ ascii_results[a][1] > ascii_results[b][1]

\* C3: the frames the player loads from the persisted file are the persisted
\* sequence, in order, character for character.
C3_RoundTrip ==
    (pc \notin {"exists", "load", "returned"} /\ persisted # <<>>) => frames = persisted

\* C4: every frame printed is the cyclic successor of the frame printed
\* before it: after the last frame the first frame is printed again.
C4_CyclesThroughAllFrames ==
    [][(pc = "render" /\ pc' = "sleep") => shown' = (shown % Len(frames)) + 1]_vars

\* C5: once the flag is set at most one further frame is printed, and the
\* render loop reaches Stopped; the listener touches nothing of the render
\* loop but the flag.
C5_StopsWithinOneFrame ==
    /\ [](after_stop <= 1)
    /\ (stop_flag ~> pc = "Stopped")
    /\ [][listener' # listener /\ listener = "waiting"
            => stop_flag' /\ UNCHANGED <<pc, frames, cur, shown, file>>]_vars

\* C5 witness: the flag was set in the middle of a pass over three frames, one
\* more frame was printed and the loop stopped
C5_Witness ==
    /\ pc = "Stopped"
    /\ stop_flag
    /\ after_stop = 1
    /\ Len(frames) = 3
    /\ shown = 2

\* C6: with frames.txt absent or empty nothing is printed and the animation
\* loop is not entered.
C6_NoOpWhenAbsentOrEmpty ==
    (file = ABSENT \/ file = <<>>) =>
        /\ shown = 0
        /\ pc \notin {"while", "for", "render", "sleep"}

\* C7: when the rasterization of some frames raised (and neither clipboard nor
\* write failed), the run ends with frames.txt holding the conversions of all
\* the other frames in order, and with no file exactly when no frame is left.
C7_FailedFrameOnlyDropped ==
    (Terminated /\ raised # {} /\ io_raised = {}) =>
        IF NotRaised = {} THEN file = ABSENT
        ELSE file = FullOutput(InOrder(NotRaised))

\* C8: when every frame was converted and the clipboard copy raised (and the
\* write did not), the run ends with frames.txt holding the full output.
C8_ClipboardFailureNotFatal ==
    (Terminated /\ raised = {} /\ io_raised = {"clipboard"}) =>
        /\ file # ABSENT
        /\ file = FullOutput(InOrder(NotRaised))

\* 0-based position of character c in the palette
PaletteIndex(c) == CHOOSE k \in 0..(Len(PALETTE) - 1) : PALETTE[k + 1] = c

\* C9: the character emitted for luminance p is the palette entry at
\* floor(p * (len(PALETTE)-1) / 255), which lies inside the palette, is the
\* last entry for 255, is monotonic in p, and is 0, 5, 11, 2 for 0, 128, 255, 64.
C9_PaletteIndex ==
    pc = "pix_done" =>
        LET out == ascii_frames[1]
            n   == Len(PALETTE)
        IN  /\ Len(out) = Len(pixels)
            /\ \A x \in 1..Len(pixels) :
                 LET p == pixels[x]
                     k == PaletteIndex(out[x])
                 IN  /\ \E j \in 1..n : PALETTE[j] = out[x]
                     /\ k * 255 <= p * (n - 1)
                     /\ p * (n - 1) < (k + 1) * 255
                     /\ (p = 255 => k = n - 1)
                     /\ (p = 0 => k = 0)
                     /\ (p = 128 => k = 5)
                     /\ (p = 64 => k = 2)
            /\ \A x, y \in 1..Len(pixels) :
                 pixels[x] < pixels[y] => PaletteIndex(out[x]) <= PaletteIndex(out[y])

\* C9 witness: the row <<128, 255>> was rasterized to the palette entries 5 and 11
C9_Witness ==
    /\ pc = "pix_done"
    /\ pixels = <<128, 255>>
    /\ ascii_frames = <<<<"+", "@">>>>

====
